---- MODULE Spec2Model ----
(***************************************************************************)
(* A model of the openinspire ingestion pipeline (src/openinspire/core.py):*)
(* link discovery, pooled downloads into a persistent cache directory,     *)
(* extraction of the .gml members into a scratch directory, and their      *)
(* consolidation into one output dataset.                                  *)
(*                                                                         *)
(* Strings the code takes apart (hrefs, URLs, file names) are sequences of *)
(* one-character strings, so that basename, splitext, endswith and the     *)
(* renaming are computed on characters as the code computes them.          *)
(***************************************************************************)
EXTENDS Integers, Sequences, FiniteSets, TLC

(* ------------------------------ bounds -------------------------------- *)

\* Process runs (constructions of the class followed by run()) explored.
MaxRuns == 2
\* Chunks r.iter_content delivers for a non-empty archive.
MaxChunks == 2

(* -------------------------- program constants ------------------------- *)

\* run_downloads: max_workers = 5
max_workers == 5

ZIP == <<".", "z", "i", "p">>
GML == <<".", "g", "m", "l">>
target_crs == "EPSG:27700"

(* ------------------------------ strings ------------------------------- *)

\* str.endswith
EndsWith(s, suf) ==
    /\ Len(s) >= Len(suf)
    /\ SubSeq(s, Len(s) - Len(suf) + 1, Len(s)) = suf

\* str.rfind, 1-based; 0 when c does not occur
RFind(s, c) ==
    LET at == {i \in 1..Len(s) : s[i] = c}
    IN  IF at = {} THEN 0 ELSE CHOOSE i \in at : \A j \in at : j <= i

\* os.path.basename: what follows the last "/"
Basename(p) == SubSeq(p, RFind(p, "/") + 1, Len(p))

\* os.path.splitext(p)[0]: the extension starts at the last "." of the last
\* component, unless only "." characters precede it there (leading periods are
\* part of the root: splitext(".zip") == (".zip", "")).
SplitextRoot(p) ==
    LET sep == RFind(p, "/")
        dot == RFind(p, ".")
    IN  IF dot > sep /\ \E k \in (sep + 1)..(dot - 1) : p[k] # "."
        THEN SubSeq(p, 1, dot - 1)
        ELSE p

\* A URL is <<scheme and authority>> \o path \o ("?" query) \o ("#" fragment):
\* the first element stands for "http://host", which no code looks into.
\* urlparse(url).path: up to the first "?" or "#".
UrlPath(url) ==
    LET stop == {i \in 2..Len(url) : url[i] \in {"?", "#"}}
        end  == IF stop = {} THEN Len(url)
                ELSE (CHOOSE i \in stop : \A j \in stop : i <= j) - 1
    IN  SubSeq(url, 2, end)

\* run_downloads: os.path.basename(urlparse(url).path)
FileName(url) == Basename(UrlPath(url))

\* The "scheme://host" tokens a URL of the model starts with.
Authorities == {"http://g", "http://h"}

\* Characters in code-point order, for sorted(); the authority tokens come
\* first, in their own order ("http://g" < "http://h").
Alphabet ==
    <<"http://g", "http://h", " ", "#", ".", "/", "?", "G", "L", "M", "_",
      "a", "b", "c", "d", "e", "g", "i", "l", "m", "n", "p", "s", "t", "x", "z">>

Code(c) == CHOOSE k \in 1..Len(Alphabet) : Alphabet[k] = c

\* s < t for Python strings: the first differing character decides, a proper
\* prefix is smaller.
StrLess(s, t) ==
    \E k \in 1..(Len(t)) :
        /\ \A j \in 1..(k - 1) : j <= Len(s) /\ s[j] = t[j]
        /\ \/ Len(s) = k - 1
           \/ k <= Len(s) /\ Code(s[k]) < Code(t[k])

\* sorted(list(set(links)))
RECURSIVE SortedSeq(_)
SortedSeq(S) ==
    IF S = {} THEN <<>>
    ELSE LET m == CHOOSE x \in S : \A y \in S \ {x} : StrLess(x, y)
         IN  <<m>> \o SortedSeq(S \ {m})

\* str.lower on the characters of the alphabet
Lower(c) ==
    CASE c = "G" -> "g"
      [] c = "L" -> "l"
      [] c = "M" -> "m"
      [] OTHER   -> c

\* a.get_text(strip=True).lower(): leading and trailing blanks dropped
StripLower(t) ==
    LET ink   == {k \in 1..Len(t) : t[k] # " "}
        first == CHOOSE k \in ink : \A j \in ink : k <= j
        last  == CHOOSE k \in ink : \A j \in ink : j <= k
    IN  IF ink = {} THEN <<>>
        ELSE [k \in 1..(last - first + 1) |-> Lower(t[first + k - 1])]

\* kw in text
Contains(t, kw) ==
    \E k \in 0..(Len(t) - Len(kw)) : SubSeq(t, k + 1, k + Len(kw)) = kw

\* The source URL of the configuration (self.base_url).
BaseUrl == <<"http://h", "/", "i">>

\* urljoin(base_url, href) for the hrefs of the model: an absolute URL (its
\* first element is an authority token), a path from the root ("/..."), a query
\* ("?...") or fragment ("#...") on the base document, or a path relative to
\* the base's directory.  Dot segments ("./", "../") are not among the hrefs.
UrlJoin(base, href) ==
    LET bpath == UrlPath(base)
        bdir  == SubSeq(bpath, 1, RFind(bpath, "/"))
        hashes == {k \in 1..Len(base) : base[k] = "#"}
        nofrag == IF hashes = {} THEN base
                  ELSE SubSeq(base, 1, (CHOOSE k \in hashes : \A j \in hashes : k <= j) - 1)
    IN  IF href = <<>> THEN base
        ELSE IF href[1] \in Authorities THEN href
        ELSE IF href[1] = "/" THEN <<base[1]>> \o href
        ELSE IF href[1] = "?" THEN <<base[1]>> \o bpath \o href
        ELSE IF href[1] = "#" THEN nofrag \o href
        ELSE <<base[1]>> \o bdir \o href

\* _get_links: the filter of one anchor
Keeps(a) ==
    LET text == StripLower(a.text)
    IN  /\ EndsWith(a.href, ZIP)
        /\ (Contains(text, GML) \/ Contains(text, <<"l", "a", "n", "d">>))

\* _get_links on a parsed page (a sequence of anchors carrying an href)
GetLinks(page) ==
    SortedSeq({UrlJoin(BaseUrl, page[k].href) : k \in {j \in 1..Len(page) : Keeps(page[j])}})

(* ------------------------------- state -------------------------------- *)

VARIABLES
    run,        \* number of the process run (construction, then run())
    pc,         \* where the control thread of this run is
    served,     \* the remote side: URL -> what a GET of it streams
    links,      \* run(): links, the sorted result of _get_links
    task,       \* run_downloads: one record per submitted _download_file
    cache,      \* cache_dir: archive file name -> content (a sequence of chunks)
    scratch,    \* extract_dir: whether it exists, and file name -> extracted record
    output,     \* the dataset at output_gpkg: whether it exists, and its features
    log,        \* the lines log() printed in this run, in order
    before,     \* cache_dir and output as this run found them, and whether extract_dir held files
    zips,       \* _unzip_all: zip_files still to process, in listing order
    zip,        \* _unzip_all: the archive being read and its next member
    gmls,       \* _amalgamate_gmls: gml_files still to process, in listing order
    is_first    \* _amalgamate_gmls: is_first

vars == <<run, pc, served, links, task, cache, scratch, output, log, before,
          zips, zip, gmls, is_first>>

NoFile == [exists |-> FALSE, batches |-> <<>>]
Dataset(batches) == [exists |-> TRUE, batches |-> batches]
Empty  == <<>>

\* A function as a set of arguments it is defined on.
Restrict(f, S) == IF S = {} THEN <<>> ELSE [x \in S |-> f[x]]

(* ----------------------------- file system ---------------------------- *)

\* The k-th chunk of the body of url.
Chunk(url, k) == <<url, k>>
\* What a write past the end of a file leaves in between.
Hole == <<Empty, 0>>

\* The complete body of url as the server streams it.
Body(url) == [k \in 1..served[url].n |-> Chunk(url, k)]

\* os.path.exists(target_path)
Exists(name) == name \in DOMAIN cache

\* "missing", "zero" (os.path.getsize == 0) or "nonempty"
SizeClass(name) ==
    IF ~Exists(name) THEN "missing"
    ELSE IF Len(cache[name]) = 0 THEN "zero" ELSE "nonempty"

\* f.write(chunk) through a descriptor at offset off
WriteAt(content, off, chunk) ==
    IF off < Len(content)
    THEN [content EXCEPT ![off + 1] = chunk]
    ELSE content \o [k \in 1..(off - Len(content)) |-> Hole] \o <<chunk>>

(* ------------------------------- logging ------------------------------ *)

\* log(): one line, under print_lock
Logged(line) == log' = Append(log, line)

Line(kind, index) == [kind |-> kind, index |-> index]

(* ------------------------------ discovery ----------------------------- *)

Anchor(href, text) == [href |-> href, text |-> text]

LandGml == <<"L", "a", "n", "d", " ", "G", "M", "L">>

\* The index pages the source URL serves in the pipeline runs.
Pages ==
    { <<Anchor(<<"a">> \o ZIP, LandGml),
        Anchor(<<"d", "/", "a">> \o ZIP, <<" ", "l", "a", "n", "d">>),
        Anchor(<<"b", ".", "t", "x", "t">>, LandGml)>>,
      <<Anchor(<<"a">> \o ZIP, LandGml),
        Anchor(<<"b">> \o ZIP, <<"x">> \o GML)>>,
      <<Anchor(<<"b", ".", "t", "x", "t">>, LandGml),
        Anchor(<<"c">> \o ZIP, <<"x">>)>> }

QueuedTask ==
    [st |-> "queued", off |-> 0, fd |-> "none", atExists |-> "-",
     atGetsize |-> "-", calls |-> 0, reported |-> FALSE]

\* (mutant) run() without "if not links: return".
Discover_noreturn(page) ==
    /\ pc = "discover"
    /\ links' = GetLinks(page)
    /\ pc' = "fetch"
    /\ log' = log \o <<Line("Scraping source", 0), Line("Phase 1: Downloading", 0),
                       Line("Phase 1: Parallel Downloading", 0)>>
    /\ task' = [i \in 1..Len(links') |-> QueuedTask]
    /\ UNCHANGED <<run, served, cache, scratch, output, before, zips, zip, gmls, is_first>>

\* run(): links = self._get_links(); the page was fetched and parsed.  With
\* links, run_downloads submits one _download_file per link.
Discover(page) ==
    /\ pc = "discover"
    /\ links' = GetLinks(page)
    /\ IF links' = <<>>
       THEN /\ pc' = "nolinks"
            /\ log' = log \o <<Line("Scraping source", 0), Line("No links found.", 0)>>
            /\ task' = <<>>
       ELSE /\ pc' = "fetch"
            /\ log' = log \o <<Line("Scraping source", 0), Line("Phase 1: Downloading", 0),
                               Line("Phase 1: Parallel Downloading", 0)>>
            /\ task' = [i \in 1..Len(links') |-> QueuedTask]
    /\ UNCHANGED <<run, served, cache, scratch, output, before, zips, zip, gmls, is_first>>

\* _get_links: requests.get or the parse raised; the except returns [].
DiscoverFails ==
    /\ pc = "discover"
    /\ links' = <<>>
    /\ task' = <<>>
    /\ pc' = "nolinks"
    /\ log' = log \o <<Line("Scraping source", 0), Line("Failed to scrape links", 0),
                       Line("No links found.", 0)>>
    /\ UNCHANGED <<run, served, cache, scratch, output, before, zips, zip, gmls, is_first>>

(* -------------------------------- fetch ------------------------------- *)

Tasks == DOMAIN task

\* target_path of task i, within cache_dir
Target(i) == FileName(links[i])

\* Tasks a worker thread of the pool is executing.
InFlight == {j \in Tasks : task[j].st \in {"getsize", "request", "open", "write"}}

\* os.remove(name) unlinks the directory entry: a descriptor another task holds
\* on that file keeps writing to a file no name leads to any more.
Unlinked(j, name) ==
    IF task[j].fd = "linked" /\ Target(j) = name
    THEN [task[j] EXCEPT !.fd = "orphan"]
    ELSE task[j]

\* _download_file, except Exception: if os.path.exists(target_path):
\* os.remove(target_path); raise e -- with the descriptor of the with-block closed.
Handler(i, calls) ==
    /\ cache' = IF Exists(Target(i))
                THEN Restrict(cache, DOMAIN cache \ {Target(i)})
                ELSE cache
    /\ task' = [j \in Tasks |->
                  IF j = i
                  THEN [task[i] EXCEPT !.st = "raised", !.fd = "none", !.calls = calls]
                  ELSE IF Exists(Target(i)) THEN Unlinked(j, Target(i)) ELSE task[j]]

FetchFrame == UNCHANGED <<run, pc, served, links, scratch, output, before, zips, zip, gmls, is_first>>

\* (mutant) a pool that starts a thread for every work item.
Start_unbounded(i) ==
    /\ pc = "fetch"
    /\ task[i].st = "queued"
    /\ \A j \in Tasks : j < i => task[j].st # "queued"
    /\ task' = [task EXCEPT ![i].st = IF Exists(Target(i)) THEN "getsize" ELSE "request",
                            ![i].atExists = SizeClass(Target(i))]
    /\ UNCHANGED <<cache, log>>
    /\ FetchFrame

\* A worker of the pool takes the oldest queued work item (the pool has at most
\* max_workers threads) and _download_file evaluates os.path.exists(target_path).
Start(i) ==
    /\ pc = "fetch"
    /\ task[i].st = "queued"
    /\ \A j \in Tasks : j < i => task[j].st # "queued"
    /\ Cardinality(InFlight) < max_workers
    /\ task' = [task EXCEPT ![i].st = IF Exists(Target(i)) THEN "getsize" ELSE "request",
                            ![i].atExists = SizeClass(Target(i))]
    /\ UNCHANGED <<cache, log>>
    /\ FetchFrame

\* os.path.getsize(target_path), outside the try: it raises when the file is
\* gone, returns early (after the "Skipping" line) when the size is positive.
GetSize(i) ==
    /\ pc = "fetch"
    /\ task[i].st = "getsize"
    /\ task' = [task EXCEPT ![i].atGetsize = SizeClass(Target(i)),
                            ![i].st = CASE SizeClass(Target(i)) = "missing"  -> "raised"
                                        [] SizeClass(Target(i)) = "nonempty" -> "returned"
                                        [] OTHER                             -> "request"]
    /\ IF SizeClass(Target(i)) = "nonempty"
       THEN Logged(Line("Skipping (already exists)", i))
       ELSE UNCHANGED log
    /\ UNCHANGED cache
    /\ FetchFrame

\* requests.get(url, stream=True, timeout=60) and r.raise_for_status() succeed.
RequestOk(i) ==
    /\ pc = "fetch"
    /\ task[i].st = "request"
    /\ task' = [task EXCEPT ![i].st = "open", ![i].calls = @ + 1]
    /\ UNCHANGED <<cache, log>>
    /\ FetchFrame

\* requests.get raises (connection error, timeout) or raise_for_status does
\* (a status that is not 2xx).
RequestFails(i) ==
    /\ pc = "fetch"
    /\ task[i].st = "request"
    /\ Handler(i, task[i].calls + 1)
    /\ UNCHANGED log
    /\ FetchFrame

\* open(target_path, 'wb'): creates the file, or truncates the one of that name.
Open(i) ==
    /\ pc = "fetch"
    /\ task[i].st = "open"
    /\ cache' = [n \in DOMAIN cache \cup {Target(i)} |->
                   IF n = Target(i) THEN Empty ELSE cache[n]]
    /\ task' = [task EXCEPT ![i].st = "write", ![i].fd = "linked", ![i].off = 0]
    /\ UNCHANGED log
    /\ FetchFrame

\* for chunk in r.iter_content(chunk_size=8192): f.write(chunk)
WriteChunk(i) ==
    /\ pc = "fetch"
    /\ task[i].st = "write"
    /\ task[i].off < served[links[i]].n
    /\ cache' = IF task[i].fd = "linked"
                THEN [cache EXCEPT ![Target(i)] =
                         WriteAt(@, task[i].off, Chunk(links[i], task[i].off + 1))]
                ELSE cache
    /\ task' = [task EXCEPT ![i].off = @ + 1]
    /\ UNCHANGED log
    /\ FetchFrame

\* iter_content raises (the connection drops) or f.write does (the disk).
WriteFails(i) ==
    /\ pc = "fetch"
    /\ task[i].st = "write"
    /\ Handler(i, task[i].calls)
    /\ UNCHANGED log
    /\ FetchFrame

\* The body is exhausted: the with-block closes the file and _download_file returns.
Close(i) ==
    /\ pc = "fetch"
    /\ task[i].st = "write"
    /\ task[i].off = served[links[i]].n
    /\ task' = [task EXCEPT ![i].st = "returned", ![i].fd = "none"]
    /\ UNCHANGED <<cache, log>>
    /\ FetchFrame

\* run_downloads, the as_completed loop: future.result() returns ("Finished")
\* or raises ("FAILED").
ReportLine(i) == Line(IF task[i].st = "returned" THEN "Finished" ELSE "FAILED", i)

\* (mutant) future.result() outside the try: the exception of a failed
\* download leaves run_downloads and run().
Report_unguarded(i) ==
    /\ pc = "fetch"
    /\ task[i].st \in {"returned", "raised"}
    /\ ~task[i].reported
    /\ task' = [task EXCEPT ![i].reported = TRUE]
    /\ IF task[i].st = "raised"
       THEN pc' = "aborted" /\ UNCHANGED log
       ELSE pc' = pc /\ Logged(ReportLine(i))
    /\ UNCHANGED <<run, served, links, cache, scratch, output, before, zips, zip, gmls, is_first>>

\* One future of the as_completed loop: its outcome is logged.
Report(i) ==
    /\ pc = "fetch"
    /\ task[i].st \in {"returned", "raised"}
    /\ ~task[i].reported
    /\ task' = [task EXCEPT ![i].reported = TRUE]
    /\ Logged(ReportLine(i))
    /\ UNCHANGED cache
    /\ FetchFrame

\* (mutant) the loop over as_completed stops at the first future.
AllReported_first == \E j \in Tasks : task[j].reported

\* as_completed has yielded every future.
AllReported == \A j \in Tasks : task[j].reported

(* ------------------------------- extract ------------------------------ *)

\* The orders os.listdir may give the names of S in.
Listings(S) ==
    {o \in [1..Cardinality(S) -> S] : \A a, b \in 1..Cardinality(S) : o[a] = o[b] => a = b}

NoZip == [name |-> Empty, members |-> <<>>, k |-> 0]

\* zipfile.ZipFile(zip_path, 'r') reads the archive: the file holds a complete
\* body, and that body is a zip archive.
Readable(content) ==
    /\ Len(content) > 0
    /\ \E u \in DOMAIN served : content = Body(u) /\ served[u].good

\* zip_ref.namelist() of a readable file
NameList(content) ==
    served[CHOOSE u \in DOMAIN served : content = Body(u) /\ served[u].good].members

\* gml_members = [m for m in zip_ref.namelist() if m.endswith('.gml')]
RECURSIVE GmlMembers(_)
GmlMembers(ms) ==
    IF ms = <<>> THEN <<>>
    ELSE (IF EndsWith(Head(ms).name, GML) THEN <<Head(ms)>> ELSE <<>>) \o GmlMembers(Tail(ms))

\* zip_name_no_ext = os.path.splitext(os.path.basename(zip_path))[0]
ZipNameNoExt(zip_path) == SplitextRoot(Basename(zip_path))

\* unique_gml_name = f"{zip_name_no_ext}_{os.path.basename(member)}"
UniqueGmlName(zip_path, member) ==
    ZipNameNoExt(zip_path) \o <<"_">> \o Basename(member)

\* (mutant) _unzip_all goes through the archives of this run's links only.
FetchDone_fetched(order) ==
    /\ pc = "fetch"
    /\ AllReported
    /\ order \in Listings({n \in DOMAIN cache : EndsWith(n, ZIP)})
    /\ zips' = SelectSeq(order, LAMBDA n : \E i \in Tasks : Target(i) = n)
    /\ zip' = NoZip
    /\ pc' = "extract"
    /\ log' = log \o <<Line("All Downloads Complete", 0), Line("Phase 2: Unzipping", 0)>>
    /\ UNCHANGED <<run, served, links, task, cache, scratch, output, before, gmls, is_first>>

\* run_downloads ends once every future was reported; run() goes on to
\* _unzip_all, which lists the *.zip names of cache_dir.
FetchDone(order) ==
    /\ pc = "fetch"
    /\ AllReported
    /\ order \in Listings({n \in DOMAIN cache : EndsWith(n, ZIP)})
    /\ zips' = order
    /\ zip' = NoZip
    /\ pc' = "extract"
    /\ log' = log \o <<Line("All Downloads Complete", 0), Line("Phase 2: Unzipping", 0)>>
    /\ UNCHANGED <<run, served, links, task, cache, scratch, output, before, gmls, is_first>>

ExtractFrame == UNCHANGED <<run, pc, served, links, task, cache, output, before, gmls, is_first>>

\* The loop takes the next archive and opens it; an unreadable one raises, is
\* logged and skipped.
NextZip ==
    /\ pc = "extract"
    /\ zip = NoZip
    /\ zips # <<>>
    /\ zips' = Tail(zips)
    /\ IF Readable(cache[Head(zips)])
       THEN /\ zip' = [name |-> Head(zips),
                       members |-> GmlMembers(NameList(cache[Head(zips)])),
                       k |-> 1]
            /\ Logged(Line("Renaming & Extracting", Head(zips)))
       ELSE /\ zip' = NoZip
            /\ log' = log \o <<Line("Renaming & Extracting", Head(zips)),
                               Line("Failed to process", Head(zips))>>
    /\ UNCHANGED scratch
    /\ ExtractFrame

\* The record the copy of one member leaves in extract_dir.
Extracted(archive, m, whole) ==
    [arch |-> archive, member |-> m.name, data |-> m.data, whole |-> whole, run |-> run]

WithFile(dir, name, rec) ==
    [dir EXCEPT !.files = [n \in DOMAIN dir.files \cup {name} |->
                             IF n = name THEN rec ELSE dir.files[n]]]

\* with zip_ref.open(member) as source, open(target_path, "wb") as target:
\*     shutil.copyfileobj(source, target)
ExtractMember ==
    /\ pc = "extract"
    /\ zip # NoZip
    /\ zip.k <= Len(zip.members)
    /\ scratch' = WithFile(scratch, UniqueGmlName(zip.name, zip.members[zip.k].name),
                           Extracted(zip.name, zip.members[zip.k], TRUE))
    /\ zip' = [zip EXCEPT !.k = @ + 1]
    /\ UNCHANGED <<zips, log>>
    /\ ExtractFrame

\* The copy of a member raises: in zip_ref.open, before the target is created
\* (written = FALSE), or in copyfileobj, after (written = TRUE).  The except
\* logs and the loop goes on with the next archive.
ExtractFails(written) ==
    /\ pc = "extract"
    /\ zip # NoZip
    /\ zip.k <= Len(zip.members)
    /\ scratch' = IF written
                  THEN WithFile(scratch, UniqueGmlName(zip.name, zip.members[zip.k].name),
                                Extracted(zip.name, zip.members[zip.k], FALSE))
                  ELSE scratch
    /\ zip' = NoZip
    /\ Logged(Line("Failed to process", zip.name))
    /\ UNCHANGED zips
    /\ ExtractFrame

\* Every .gml member of the archive was copied.
CloseZip ==
    /\ pc = "extract"
    /\ zip # NoZip
    /\ zip.k > Len(zip.members)
    /\ zip' = NoZip
    /\ UNCHANGED <<zips, scratch, log>>
    /\ ExtractFrame

(* ----------------------------- consolidate ---------------------------- *)

\* _unzip_all is through; _amalgamate_gmls lists the *.gml names of
\* extract_dir, returns when there are none, and removes the output otherwise.
ExtractDone(order) ==
    /\ pc = "extract"
    /\ zip = NoZip
    /\ zips = <<>>
    /\ order \in Listings({n \in DOMAIN scratch.files : EndsWith(n, GML)})
    /\ gmls' = order
    /\ pc' = "consolidate"
    /\ IF order = <<>>
       THEN /\ log' = log \o <<Line("Phase 3: Amalgamating", 0), Line("No GML files found.", 0)>>
            /\ UNCHANGED <<output, is_first>>
       ELSE /\ log' = Append(log, Line("Phase 3: Amalgamating", 0))
            /\ is_first' = TRUE
            /\ output' = NoFile
    /\ UNCHANGED <<run, served, links, task, cache, scratch, before, zips, zip>>

ConsolidateFrame == UNCHANGED <<run, pc, served, links, task, cache, scratch, before, zips, zip>>

\* gdf.to_crs(self.target_crs): the collection in the target reference system
\* (to_crs raises on a collection without one: see Unusable).
ToCrs(crs) == target_crs

\* (mutant) the collection is written as it was read.
WrittenCrs_asread(crs) == crs

\* if gdf.crs != self.target_crs: gdf = gdf.to_crs(self.target_crs)
WrittenCrs(crs) == IF crs # target_crs THEN ToCrs(crs) ELSE crs

\* The features of one extracted file as to_file writes them.
Batch(file, rec, mode) ==
    [file |-> file, arch |-> rec.arch, member |-> rec.member, feats |-> rec.data.feats,
     crs |-> WrittenCrs(rec.data.crs), mode |-> mode, run |-> run]

\* gpd.read_file raises on a file that does not parse; gdf.to_crs raises on a
\* collection without a reference system.
Unusable(rec) ==
    \/ ~rec.whole
    \/ ~rec.data.parses
    \/ rec.data.feats > 0 /\ rec.data.crs = "none"

\* One file of the loop is read and, when not empty, written: mode 'w' creates
\* the dataset, mode 'a' appends to it.
Merge ==
    /\ pc = "consolidate"
    /\ gmls # <<>>
    /\ ~Unusable(scratch.files[Head(gmls)])
    /\ gmls' = Tail(gmls)
    /\ Logged(Line("Consolidating", Head(gmls)))
    /\ IF scratch.files[Head(gmls)].data.feats = 0
       THEN UNCHANGED <<output, is_first>>
       ELSE /\ output' =
                 IF is_first
                 THEN Dataset(<<Batch(Head(gmls), scratch.files[Head(gmls)], "w")>>)
                 ELSE Dataset(Append(output.batches,
                                     Batch(Head(gmls), scratch.files[Head(gmls)], "a")))
            /\ is_first' = FALSE
    /\ ConsolidateFrame

\* (mutant) is_first = False is set before the write is known to have succeeded.
MergeFails_notfirst ==
    /\ pc = "consolidate"
    /\ gmls # <<>>
    /\ gmls' = Tail(gmls)
    /\ log' = log \o <<Line("Consolidating", Head(gmls)), Line("Error merging", Head(gmls))>>
    /\ is_first' = FALSE
    /\ UNCHANGED output
    /\ ConsolidateFrame

\* read_file, to_crs or to_file raises: the except logs, the loop goes on.
\* (to_file may raise on any file: the schema, the disk.)  A write that raises
\* is taken to leave the features of the dataset as they were.
MergeFails ==
    /\ pc = "consolidate"
    /\ gmls # <<>>
    /\ gmls' = Tail(gmls)
    /\ log' = log \o <<Line("Consolidating", Head(gmls)), Line("Error merging", Head(gmls))>>
    /\ UNCHANGED <<output, is_first>>
    /\ ConsolidateFrame

\* _amalgamate_gmls returns (the loop is through, or there was no file): back
\* in run().
ConsolidateDone ==
    /\ pc = "consolidate"
    /\ gmls = <<>>
    /\ pc' = "cleanup"
    /\ UNCHANGED <<run, served, links, task, cache, scratch, output, log, before,
                   zips, zip, gmls, is_first>>

\* run(): shutil.rmtree(self.extract_dir); the final line.
Cleanup ==
    /\ pc = "cleanup"
    /\ scratch' = [exists |-> FALSE, files |-> <<>>]
    /\ Logged(Line("Success: Process complete.", 0))
    /\ pc' = "done"
    /\ UNCHANGED <<run, served, links, task, cache, output, before, zips, zip, gmls, is_first>>

(* ------------------------- runs and interrupts ------------------------ *)

Running == {"discover", "fetch", "extract", "consolidate", "cleanup"}
Ended   == {"done", "nolinks", "killed"}

\* SIGINT: the handler run() installs calls os._exit(0).  The process is gone
\* with its threads and descriptors; the files stay as they are.
Interrupt ==
    /\ pc \in Running
    /\ pc' = "killed"
    /\ links' = <<>>
    /\ task' = <<>>
    /\ zips' = <<>>
    /\ zip' = NoZip
    /\ gmls' = <<>>
    /\ is_first' = TRUE
    /\ UNCHANGED <<run, served, cache, scratch, output, log, before>>

\* (mutant) __init__ without the rmtree of extract_dir.
Construct_keep ==
    /\ pc \in Ended
    /\ run < MaxRuns
    /\ run' = run + 1
    /\ pc' = "discover"
    /\ scratch' = [scratch EXCEPT !.exists = TRUE]
    /\ before' = [cache |-> cache, output |-> output, scratch |-> scratch.files # <<>>]
    /\ links' = <<>>
    /\ task' = <<>>
    /\ log' = <<>>
    /\ zips' = <<>>
    /\ zip' = NoZip
    /\ gmls' = <<>>
    /\ is_first' = TRUE
    /\ UNCHANGED <<served, cache, output>>

\* The next process: __init__ (makedirs cache_dir; rmtree and makedirs of
\* extract_dir), and run() up to _get_links.
Construct ==
    /\ pc \in Ended
    /\ run < MaxRuns
    /\ run' = run + 1
    /\ pc' = "discover"
    /\ scratch' = [exists |-> TRUE, files |-> <<>>]
    /\ before' = [cache |-> cache, output |-> output, scratch |-> scratch.files # <<>>]
    /\ links' = <<>>
    /\ task' = <<>>
    /\ log' = <<>>
    /\ zips' = <<>>
    /\ zip' = NoZip
    /\ gmls' = <<>>
    /\ is_first' = TRUE
    /\ UNCHANGED <<served, cache, output>>

(* ------------------------------ the world ----------------------------- *)

Data(feats, crs, parses) == [feats |-> feats, crs |-> crs, parses |-> parses]
Member(name, data) == [name |-> name, data |-> data]
Resource(n, good, members) == [n |-> n, good |-> good, members |-> members]

UrlA  == <<"http://h", "/", "a">> \o ZIP
UrlDA == <<"http://h", "/", "d", "/", "a">> \o ZIP
UrlB  == <<"http://h", "/", "b">> \o ZIP

SameGml == <<"s", "a", "m", "e">> \o GML

\* What the server streams for the URLs of Pages: two archives of MaxChunks
\* chunks that both hold a same.gml, and a third URL that answers 200 with
\* either an empty body or an archive of one chunk.
Worlds ==
    { (UrlA  :> Resource(MaxChunks, TRUE,
                    <<Member(SameGml, Data(2, "EPSG:4326", TRUE))>>))
      @@ (UrlDA :> Resource(MaxChunks, TRUE,
                    <<Member(<<"t", "/">> \o SameGml, Data(1, target_crs, TRUE)),
                      Member(<<"x", ".", "t", "x", "t">>, Data(0, "none", FALSE))>>))
      @@ (UrlB  :> b) :
        b \in { Resource(0, FALSE, <<>>),
                Resource(1, TRUE, <<Member(<<"e">> \o GML, Data(0, "none", TRUE)),
                                    Member(<<"n">> \o GML, Data(1, "none", TRUE))>>) } }

\* A dataset an earlier use of the output path left there.
OldOutput ==
    Dataset(<<[file |-> <<"o">> \o GML, arch |-> <<"o">> \o ZIP, member |-> <<"o">> \o GML,
               feats |-> 1, crs |-> target_crs, mode |-> "w", run |-> 0]>>)

(* --------------------------- the specification ------------------------ *)

\* The first process is constructed: cache_dir exists and is empty, extract_dir
\* was just recreated, the output path may hold an older dataset.
Init ==
    /\ run = 1
    /\ pc = "discover"
    /\ served \in Worlds
    /\ links = <<>>
    /\ task = <<>>
    /\ cache = <<>>
    /\ scratch = [exists |-> TRUE, files |-> <<>>]
    /\ output \in {NoFile, OldOutput}
    /\ log = <<>>
    /\ before = [cache |-> cache, output |-> output, scratch |-> scratch.files # <<>>]
    /\ zips = <<>>
    /\ zip = NoZip
    /\ gmls = <<>>
    /\ is_first = TRUE

\* One step of a run of the program that SIGINT does not end, the index page
\* being one of pages.
RunStep(pages) ==
    \/ \E page \in pages : Discover(page)
    \/ DiscoverFails
    \/ \E i \in Tasks : Start(i)
    \/ \E i \in Tasks : GetSize(i)
    \/ \E i \in Tasks : RequestOk(i)
    \/ \E i \in Tasks : RequestFails(i)
    \/ \E i \in Tasks : Open(i)
    \/ \E i \in Tasks : WriteChunk(i)
    \/ \E i \in Tasks : WriteFails(i)
    \/ \E i \in Tasks : Close(i)
    \/ \E i \in Tasks : Report(i)
    \/ \E order \in Listings({n \in DOMAIN cache : EndsWith(n, ZIP)}) : FetchDone(order)
    \/ NextZip
    \/ ExtractMember
    \/ \E written \in BOOLEAN : ExtractFails(written)
    \/ CloseZip
    \/ \E order \in Listings({n \in DOMAIN scratch.files : EndsWith(n, GML)}) : ExtractDone(order)
    \/ Merge
    \/ MergeFails
    \/ ConsolidateDone
    \/ Cleanup

\* One step of the program: of the run, its end by SIGINT, or the next process.
Step(pages) ==
    \/ RunStep(pages)
    \/ Interrupt
    \/ Construct

Next == Step(Pages)

Spec == Init /\ [][Next]_vars

\* The index pages on which no two kept links have the same file name.
ApartPages ==
    {page \in Pages :
        \A a, b \in 1..Len(GetLinks(page)) :
            FileName(GetLinks(page)[a]) = FileName(GetLinks(page)[b]) => a = b}

NextApart == Step(ApartPages)

\* The program on index pages whose links all have file names of their own.
SpecApart == Init /\ [][NextApart]_vars

\* One process, from its construction to its end.
NextLive == RunStep(Pages) \/ Interrupt

\* One run in which the control thread and the workers of the pool keep being
\* scheduled: a step that can be taken is taken in the end, the interpreter
\* never stalling a thread for ever.  SIGINT may or may not arrive.
SpecLive == Init /\ [][NextLive]_vars /\ WF_vars(RunStep(Pages))

(* ------------------- the extractor on its own inputs ------------------ *)

\* Pieces archive names are put together from, and how many a stem may hold.
MaxStem == 2
NamePieces == {<<"a">>, <<"_">>, <<".">>, ZIP}

RECURSIVE Stems(_)
Stems(n) ==
    IF n = 0 THEN {<<>>}
    ELSE Stems(n - 1) \cup {s \o p : s \in Stems(n - 1), p \in NamePieces}

\* The *.zip names _unzip_all may find in cache_dir: ".zip", "a.zip",
\* "a_a.zip", ".zip.zip", ...
ArchiveNames == {s \o ZIP : s \in Stems(MaxStem)}

Plain == Data(1, target_crs, TRUE)

\* The member lists of the archives.
MemberLists ==
    { <<Member(SameGml, Plain)>>,
      <<Member(SameGml, Plain), Member(<<"a">> \o GML, Plain)>>,
      <<Member(<<"a", "_">> \o SameGml, Plain), Member(<<"x", ".", "t", "x", "t">>, Plain)>>,
      <<Member(<<"d", "/">> \o SameGml, Plain), Member(<<"e", "/">> \o SameGml, Plain)>> }

UrlOf(name) == <<"http://h", "/">> \o name

\* _unzip_all starts on a cache directory that holds two archives, listed in
\* either order; extract_dir is empty.
InitExtract ==
    \E n1, n2 \in ArchiveNames : \E m1, m2 \in MemberLists :
        /\ n1 # n2
        /\ served = (UrlOf(n1) :> Resource(1, TRUE, m1)) @@ (UrlOf(n2) :> Resource(1, TRUE, m2))
        /\ cache = (n1 :> <<Chunk(UrlOf(n1), 1)>>) @@ (n2 :> <<Chunk(UrlOf(n2), 1)>>)
        /\ zips = <<n1, n2>>
        /\ zip = NoZip
        /\ pc = "extract"
        /\ run = 1
        /\ links = <<>>
        /\ task = <<>>
        /\ scratch = [exists |-> TRUE, files |-> <<>>]
        /\ output = NoFile
        /\ log = <<>>
        /\ before = [cache |-> cache, output |-> output, scratch |-> scratch.files # <<>>]
        /\ gmls = <<>>
        /\ is_first = TRUE

NextExtract ==
    \/ NextZip
    \/ ExtractMember
    \/ \E written \in BOOLEAN : ExtractFails(written)
    \/ CloseZip

SpecExtract == InitExtract /\ [][NextExtract]_vars

\* The same, on archives whose names do not start with a period.
InitExtractPlain == InitExtract /\ \A n \in DOMAIN cache : n[1] # "."

SpecExtractPlain == InitExtractPlain /\ [][NextExtract]_vars

(* ----------------- the consolidator on its own inputs ----------------- *)

\* Files extract_dir may hold when _amalgamate_gmls starts.
MaxFiles == 3

GmlName(k) == <<"a", "_", <<"a", "b", "c", "d", "e">>[k]>> \o GML

\* What gpd.read_file makes of a file: an empty collection, collections in
\* the target or another reference system, one without a reference system,
\* and a file that does not parse.
Kinds ==
    << Data(0, target_crs, TRUE), Data(1, target_crs, TRUE), Data(2, "EPSG:4326", TRUE),
       Data(1, "none", TRUE), Data(1, target_crs, FALSE) >>

\* _unzip_all is through and has left no file, or up to MaxFiles files, in
\* extract_dir; an older dataset may be at the output path.  The listing of
\* ExtractDone takes the files in every order, so the kinds are given to the
\* names in one order only.
InitConsolidate ==
    \E n \in 0..MaxFiles : \E kind \in [1..n -> 1..Len(Kinds)] :
        /\ \A j, k \in 1..n : j < k => kind[j] <= kind[k]
        /\ scratch = [exists |-> TRUE,
                      files |-> Restrict([f \in {GmlName(k) : k \in 1..n} |->
                                            LET k == CHOOSE j \in 1..n : GmlName(j) = f
                                            IN  [arch |-> <<"a">> \o ZIP, member |-> f,
                                                 data |-> Kinds[kind[k]], whole |-> TRUE, run |-> 1]],
                                         {GmlName(k) : k \in 1..n})]
        /\ output \in {NoFile, OldOutput}
        /\ pc = "extract"
        /\ run = 1
        /\ served = <<>>
        /\ links = <<>>
        /\ task = <<>>
        /\ cache = <<>>
        /\ log = <<>>
        /\ before = [cache |-> cache, output |-> output, scratch |-> scratch.files # <<>>]
        /\ zips = <<>>
        /\ zip = NoZip
        /\ gmls = <<>>
        /\ is_first = TRUE

NextConsolidate ==
    \/ \E order \in Listings({n \in DOMAIN scratch.files : EndsWith(n, GML)}) : ExtractDone(order)
    \/ Merge
    \/ MergeFails
    \/ ConsolidateDone

SpecConsolidate == InitConsolidate /\ [][NextConsolidate]_vars

(* ------------------ the discoverer on its own inputs ------------------ *)

\* Anchors an index page may hold.
MaxAnchors == 2

\* The hrefs of the anchors: plain archives (relative, from the root, on
\* another host), another extension, and hrefs that carry a query string or a
\* fragment or whose path ends in a slash.
Hrefs ==
    { <<"a">> \o ZIP,
      <<"b">> \o ZIP,
      <<"d", "/", "a">> \o ZIP,
      <<"/", "a">> \o ZIP,
      <<"http://g", "/", "a">> \o ZIP,
      <<"b", ".", "t", "x", "t">>,
      <<"a">> \o ZIP \o <<"?", "x">>,
      <<"a">> \o ZIP \o <<"#", "t">>,
      <<"x", "?", "a">> \o ZIP,
      <<"#">> \o ZIP,
      <<"d", "/", "?">> \o ZIP }

\* The texts of the anchors.
Texts == { LandGml, <<" ", "x">> \o GML \o <<" ">>, <<"x">> }

RECURSIVE PagesOf(_)
PagesOf(n) ==
    IF n = 0 THEN {<<>>}
    ELSE PagesOf(n - 1) \cup
         {Append(page, Anchor(h, t)) : page \in PagesOf(n - 1), h \in Hrefs, t \in Texts}

\* The parsed index pages of up to MaxAnchors anchors.
DiscoverPages == PagesOf(MaxAnchors)

NextDiscover ==
    \/ \E page \in DiscoverPages : Discover(page)
    \/ DiscoverFails

\* run() up to the submission of the downloads, on any of these pages.
SpecDiscover == Init /\ [][NextDiscover]_vars

(* ---------------------- the pool on many links ------------------------ *)

\* Links run_downloads may be given.
MaxLinks == 6

\* Distinct archive URLs in sorted order: http://h/a.zip, http://h/b.zip, ...
PoolLinks ==
    [k \in 1..(MaxLinks + 2) |->
        <<"http://h", "/", <<"a", "b", "c", "d", "e", "g", "i", "l", "m", "n">>[k]>> \o ZIP]

\* run_downloads has submitted one _download_file per link, for up to MaxLinks
\* links; the cache directory is empty and the server answers every request
\* with an error status.
InitPool ==
    \E n \in 1..MaxLinks :
        /\ links = [k \in 1..n |-> PoolLinks[k]]
        /\ task = [k \in 1..n |-> QueuedTask]
        /\ served = [u \in {PoolLinks[k] : k \in 1..n} |-> Resource(0, FALSE, <<>>)]
        /\ pc = "fetch"
        /\ run = 1
        /\ cache = <<>>
        /\ scratch = [exists |-> TRUE, files |-> <<>>]
        /\ output = NoFile
        /\ log = <<Line("Scraping source", 0), Line("Phase 1: Downloading", 0),
                   Line("Phase 1: Parallel Downloading", 0)>>
        /\ before = [cache |-> cache, output |-> output, scratch |-> scratch.files # <<>>]
        /\ zips = <<>>
        /\ zip = NoZip
        /\ gmls = <<>>
        /\ is_first = TRUE

NextPool ==
    \/ \E i \in Tasks : Start(i)
    \/ \E i \in Tasks : RequestFails(i)
    \/ \E i \in Tasks : Report(i)

\* The threads of the pool and the control thread keep being scheduled.
SpecPool == InitPool /\ [][NextPool]_vars /\ WF_vars(NextPool)

(* ------------------------------- claims ------------------------------- *)

\* The Fetch stage has ended: every future was reported, run_downloads returns.
FetchEnded == pc = "fetch" /\ task # <<>> /\ AllReported

\* The lines of the log that report an outcome of link i.
Reports(i) ==
    {k \in 1..Len(log) :
        /\ log[k].index = i
        /\ log[k].kind \in {"Finished", "FAILED", "Skipping (already exists)"}}

\* C1: a network request for link L is issued if and only if L's cache file is
\* missing or zero-byte when L's task checks it: a non-empty file causes no
\* request, a missing or zero-byte file always causes a download attempt.
\* (The check is os.path.exists followed by os.path.getsize; the statement is
\* read in the way most favourable to the code: it binds only when both calls
\* saw the same kind of file.)
C1_RequestIffMissingOrEmpty ==
    \A i \in Tasks :
        task[i].st \in {"returned", "raised"} =>
            /\ (task[i].atExists \in {"missing", "zero"}
                    /\ task[i].atGetsize \in {"-", "missing", "zero"})
                => task[i].calls >= 1
            /\ (task[i].atExists = "nonempty" /\ task[i].atGetsize = "nonempty")
                => task[i].calls = 0

\* C2: when the download of link L fails, no file named for L exists in the
\* cache directory at the end of the Fetch stage (so that L gives no archive to
\* Extract and a later run downloads L again), and the failure is reported.
C2_FailedLinkLeavesNoFile ==
    FetchEnded =>
        \A i \in Tasks :
            (task[i].st = "raised" /\ task[i].calls >= 1) =>
                /\ ~Exists(Target(i))
                /\ \E k \in Reports(i) : log[k].kind = "FAILED"

\* C3: by the end of the Fetch stage every link's outcome was reported exactly
\* once, as one of downloaded, skipped or failed.
C3_ReportedExactlyOnce ==
    FetchEnded => \A i \in Tasks : Cardinality(Reports(i)) = 1

\* C4: download tasks share no files: a step of the task of one link (its
\* open, its writes, the deletion on its failure) never removes, truncates or
\* overwrites the cache file another link's task is writing or has downloaded.
C4_TasksTouchOnlyTheirOwnFile ==
    [][\A i, j \in Tasks :
          ( /\ i # j
            /\ Open(i) \/ WriteChunk(i) \/ RequestFails(i) \/ WriteFails(i)
            /\ \/ task[j].fd = "linked"
               \/ task[j].st = "returned" /\ task[j].calls >= 1 /\ Exists(Target(j)) )
              => /\ Target(j) \in DOMAIN cache'
                 /\ cache'[Target(j)] = cache[Target(j)]]_vars

\* C5: when the Fetch stage ends, every link that was not reported as failed
\* has its own non-empty file in the cache directory, named by its basename.
C5_EveryUnfailedLinkIsCached ==
    FetchEnded =>
        \A i \in Tasks :
            task[i].st = "returned" =>
                /\ SizeClass(Target(i)) = "nonempty"
                /\ \A j \in Tasks : (j # i /\ task[j].st = "returned") => Target(j) # Target(i)

StageOrder == <<"discover", "fetch", "extract", "consolidate", "cleanup", "done">>
Stages == {StageOrder[k] : k \in 1..Len(StageOrder)}
StageNo(p) == CHOOSE k \in 1..Len(StageOrder) : StageOrder[k] = p

\* C6: within a run the control thread moves through Discover, Fetch, Extract,
\* Consolidate, Cleanup, Done one stage at a time; Extract starts only when
\* every download task has ended and was reported; Consolidate starts only
\* when no archive is left to extract; and each stage's files change in that
\* stage alone (the cache in Fetch, the scratch files in Extract, the output
\* dataset by the consolidator, the one thread that writes it).
C6_StagesInOrder ==
    /\ [][(pc' # pc /\ run' = run /\ pc \in Stages /\ pc' \in Stages)
              => StageNo(pc') = StageNo(pc) + 1]_vars
    /\ [](pc \in {"extract", "consolidate", "cleanup", "done"} =>
              \A i \in Tasks : task[i].st \in {"returned", "raised"} /\ task[i].reported)
    /\ [](pc \in {"consolidate", "cleanup", "done"} => zips = <<>> /\ zip = NoZip)
    /\ [][cache' # cache => pc = "fetch" /\ pc' = "fetch"]_vars
    /\ [][(scratch.files' # scratch.files /\ run' = run)
              => (pc = "extract" /\ pc' = "extract") \/ (pc = "cleanup" /\ pc' = "done")]_vars
    /\ [][output' # output
              => pc' = "consolidate" /\ pc \in {"extract", "consolidate"} /\ InFlight = {}]_vars

\* C6, witness: the consolidator has written this run's first features, after
\* a Fetch stage in which one download failed and another succeeded.
C6_Witness ==
    /\ pc = "consolidate"
    /\ output # NoFile
    /\ output.batches[1].run = run
    /\ \E i, j \in Tasks : task[i].st = "raised" /\ task[j].st = "returned" /\ task[j].calls = 1

\* C7: a run whose Discovery yields no link (nothing matched, or the request or
\* the parse failed) has ended with its last line "No links found.": it has no
\* download task, the scratch directory is as __init__ left it, the cache
\* directory and the output are as the run found them, and nothing follows but
\* the next process; a run in a later stage has links.
C7_EmptyDiscoveryEndsTheRun ==
    /\ [](pc = "nolinks" =>
              /\ links = <<>>
              /\ task = <<>>
              /\ scratch.files = <<>>
              /\ cache = before.cache
              /\ output = before.output
              /\ log[Len(log)].kind = "No links found.")
    /\ [](pc \in {"fetch", "extract", "consolidate", "cleanup", "done"} => links # <<>>)
    /\ [][pc = "nolinks" => (pc' = "discover" /\ run' = run + 1)]_vars

\* C7, witness: the request for the index page failed in a run that found
\* archives in the cache directory and a dataset at the output path.
C7_Witness ==
    /\ pc = "nolinks"
    /\ cache # <<>>
    /\ output # NoFile
    /\ \E k \in 1..Len(log) : log[k].kind = "Failed to scrape links"

\* C8: a run that gets past Discovery ends with an output path that holds no
\* feature an earlier run (or anything before this run) wrote.
C8_NoStaleOutput ==
    pc = "done" => \A k \in 1..Len(output.batches) : output.batches[k].run = run

\* _unzip_all has gone through every archive, and none raised.
ExtractEnded == pc = "extract" /\ zips = <<>> /\ zip = NoZip
NoExtractFailure == \A k \in 1..Len(log) : log[k].kind # "Failed to process"

\* The .gml members of the archive file A of cache_dir, as (archive, member name).
GmlPairs(A) ==
    IF Readable(cache[A])
    THEN {<<A, GmlMembers(NameList(cache[A]))[k].name>> :
              k \in 1..Len(GmlMembers(NameList(cache[A])))}
    ELSE {}

AllGmlPairs == UNION {GmlPairs(A) : A \in DOMAIN cache}

\* C9: for any two distinct archives of the cache directory that both hold a
\* member named "same.gml", the Extractor writes two distinct files into the
\* scratch directory, each named from its (archive, member) pair.
C9_SameGmlOfTwoArchivesKeptApart ==
    (ExtractEnded /\ NoExtractFailure) =>
        \A A1, A2 \in DOMAIN cache :
            (A1 # A2 /\ <<A1, SameGml>> \in GmlPairs(A1) /\ <<A2, SameGml>> \in GmlPairs(A2)) =>
                /\ UniqueGmlName(A1, SameGml) # UniqueGmlName(A2, SameGml)
                /\ UniqueGmlName(A1, SameGml) \in DOMAIN scratch.files
                /\ UniqueGmlName(A2, SameGml) \in DOMAIN scratch.files

\* C10: the renaming is injective on (archive, member) pairs: after an
\* extraction without failures the scratch directory holds one file per .gml
\* member, each still the copy of the pair it is named from.
C10_RenamingIsInjective ==
    (ExtractEnded /\ NoExtractFailure) =>
        /\ \A p, q \in AllGmlPairs :
              p # q => UniqueGmlName(p[1], p[2]) # UniqueGmlName(q[1], q[2])
        /\ \A p \in AllGmlPairs :
              /\ UniqueGmlName(p[1], p[2]) \in DOMAIN scratch.files
              /\ scratch.files[UniqueGmlName(p[1], p[2])].arch = p[1]
              /\ scratch.files[UniqueGmlName(p[1], p[2])].member = p[2]

\* The except of _unzip_all logged a failure for archive A in this run.
FailedArchive(A) ==
    \E k \in 1..Len(log) : log[k].kind = "Failed to process" /\ log[k].index = A

\* C11: an archive whose extraction fails (it cannot be opened, or one of its
\* members raises) is skipped entirely: between archives and in Consolidation
\* the scratch directory holds no file of it, while every .gml member of every
\* other archive of the cache directory was copied in full.
C11_FailedArchiveLeavesNothing ==
    /\ (pc \in {"extract", "consolidate"} /\ zip = NoZip) =>
          \A n \in DOMAIN scratch.files : ~FailedArchive(scratch.files[n].arch)
    /\ ExtractEnded =>
          \A A \in {n \in DOMAIN cache : EndsWith(n, ZIP)} :
              ~FailedArchive(A) =>
                  \A p \in GmlPairs(A) :
                      \E n \in DOMAIN scratch.files :
                          /\ scratch.files[n].arch = A
                          /\ scratch.files[n].member = p[2]
                          /\ scratch.files[n].whole

\* The *.zip names of cache_dir.
ZipNames == {n \in DOMAIN cache : EndsWith(n, ZIP)}

\* The archives _unzip_all has taken up so far in this run, one log line each.
Taken == {k \in 1..Len(log) : log[k].kind = "Renaming & Extracting"}

\* C12: the Extract stage processes exactly the archive files (*.zip) that are
\* in the cache directory when it starts, each once, fetched or discovered in
\* this run or not; an archive that is read without an error has every member
\* whose name ends in ".gml" copied into the scratch directory under its
\* renamed name, and nothing is written there but the copy of such a member.
\* (A readable archive is one whose members can all be read: an error on a
\* member ends the archive, which is the failure policy.)
C12_ExtractsEveryCachedArchive ==
    /\ [][(pc = "fetch" /\ pc' = "extract") => zips' \in Listings(ZipNames)]_vars
    /\ [](pc = "extract" =>
              /\ {log[k].index : k \in Taken} \cup {zips[k] : k \in 1..Len(zips)} = ZipNames
              /\ Cardinality(Taken) + Len(zips) = Cardinality(ZipNames))
    /\ [][(zip # NoZip /\ zip' = NoZip /\ pc' = "extract" /\ log' = log) =>
              \A k \in 1..Len(NameList(cache[zip.name])) :
                  LET m == NameList(cache[zip.name])[k]
                  IN  EndsWith(m.name, GML) =>
                          /\ UniqueGmlName(zip.name, m.name) \in DOMAIN scratch.files
                          /\ scratch.files[UniqueGmlName(zip.name, m.name)].arch = zip.name
                          /\ scratch.files[UniqueGmlName(zip.name, m.name)].whole
                          /\ Basename(scratch.files[UniqueGmlName(zip.name, m.name)].member)
                                 = Basename(m.name)]_vars
    /\ [][(scratch.files' # scratch.files /\ pc' = "extract") =>
              \E k \in 1..Len(NameList(cache[zip.name])) :
                  LET m == NameList(cache[zip.name])[k]
                      n == UniqueGmlName(zip.name, m.name)
                  IN  /\ EndsWith(m.name, GML)
                      /\ n \in DOMAIN scratch.files'
                      /\ scratch.files'[n].arch = zip.name
                      /\ scratch.files'[n].member = m.name
                      /\ scratch.files'[n].data = m.data
                      /\ \A o \in DOMAIN scratch.files' \ {n} :
                             o \in DOMAIN scratch.files /\ scratch.files'[o] = scratch.files[o]]_vars

\* C12, witness: every archive was gone through, among them b.zip, which a run
\* before this one downloaded and no link of this run names; its two .gml
\* members are in the scratch directory.
C12_Witness ==
    /\ ExtractEnded
    /\ run = 2
    /\ <<"b">> \o ZIP \in ZipNames
    /\ \A i \in Tasks : Target(i) # <<"b">> \o ZIP
    /\ <<"b", "_", "e">> \o GML \in DOMAIN scratch.files
    /\ <<"b", "_", "n">> \o GML \in DOMAIN scratch.files
    /\ scratch.files[<<"b", "_", "n">> \o GML].whole

\* The batches of the dataset that this run's consolidator wrote.
OwnBatches == {k \in 1..Len(output.batches) : output.batches[k].run = run}

\* The step is one turn of the loop of _amalgamate_gmls.
Turn == pc = "consolidate" /\ pc' = "consolidate" /\ gmls # <<>> /\ gmls' = Tail(gmls)

\* The turn ended in the except.
TurnFails == Turn /\ Len(log') = Len(log) + 2

\* C13: within one Consolidation stage is_first is true exactly as long as no
\* write has succeeded, so a write before the first successful one is made in
\* create mode and a write after one in append mode: the first of the stage's
\* batches, and it alone, was created with 'w'; a later write adds its batch
\* behind those written and replaces none; an empty file and a failing file
\* leave the dataset and the mode as they are.
C13_CreateOnceThenAppend ==
    /\ [](pc = "consolidate" => (is_first <=> OwnBatches = {}))
    /\ [](\A k \in OwnBatches : output.batches[k].mode = "w" <=> k = 1)
    /\ [][(Turn /\ output' # output) =>
              /\ output'.exists
              /\ output'.batches[Len(output'.batches)].file = Head(gmls)
              /\ output'.batches[Len(output'.batches)].mode = (IF is_first THEN "w" ELSE "a")
              /\ SubSeq(output'.batches, 1, Len(output'.batches) - 1) = output.batches
              /\ ~is_first']_vars
    /\ [][(Turn /\ (scratch.files[Head(gmls)].data.feats = 0 \/ TurnFails)) =>
              output' = output /\ is_first' = is_first]_vars

\* C13, witness: the first file of the stage failed, the write after it
\* created the dataset and the write after that appended.
C13_Witness ==
    /\ pc = "consolidate"
    /\ \E k \in 1..Len(log) :
           /\ log[k].kind = "Error merging"
           /\ Cardinality({j \in 1..k : log[j].kind = "Consolidating"}) = 1
    /\ Len(output.batches) = 2
    /\ output.batches[1].mode = "w"
    /\ output.batches[2].mode = "a"

\* The except of _amalgamate_gmls logged a failure for file f in this run.
FailedFile(f) ==
    \E k \in 1..Len(log) : log[k].kind = "Error merging" /\ log[k].index = f

\* The extracted files that are not empty and whose read and write did not fail.
Merged ==
    {f \in DOMAIN scratch.files :
        EndsWith(f, GML) /\ ~FailedFile(f) /\ scratch.files[f].data.feats > 0}

RECURSIVE SumFeats(_)
SumFeats(F) ==
    IF F = {} THEN 0
    ELSE LET f == CHOOSE x \in F : TRUE
         IN  scratch.files[f].data.feats + SumFeats(F \ {f})

RECURSIVE FeatureCount(_)
FeatureCount(batches) ==
    IF batches = <<>> THEN 0 ELSE Head(batches).feats + FeatureCount(Tail(batches))

\* C14: after Consolidation the feature count of the output dataset is the sum
\* of the feature counts of the extracted files that were not empty and whose
\* read and write did not fail, and each such file has its batch in the output
\* whatever files failed before or after it.
C14_OutputIsTheSumOfTheMerged ==
    pc = "cleanup" =>
        /\ FeatureCount(output.batches) = SumFeats(Merged)
        /\ \A f \in Merged :
               \E k \in 1..Len(output.batches) :
                   /\ output.batches[k].file = f
                   /\ output.batches[k].feats = scratch.files[f].data.feats

\* C15: every feature collection written to the output dataset is in the
\* target reference system EPSG:27700: a collection read in another system
\* is written reprojected, and one without a reference system is not written.
C15_WrittenInTargetCrs ==
    /\ [](\A k \in 1..Len(output.batches) : output.batches[k].crs = "EPSG:27700")
    /\ [][(Turn /\ output' # output) =>
              /\ scratch.files[Head(gmls)].data.crs # "none"
              /\ output'.batches[Len(output'.batches)].crs = "EPSG:27700"]_vars

\* C15, witness: a collection read in EPSG:4326 is in the output.
C15_Witness ==
    \E k \in 1..Len(output.batches) :
        /\ output.batches[k].run = run
        /\ output.batches[k].file \in DOMAIN scratch.files
        /\ scratch.files[output.batches[k].file].data.crs = "EPSG:4326"

\* C16: the scratch directory is that of one run: it exists and is empty from
\* the construction of a run until its Extract stage begins, whatever the run
\* before left there; during Extract and Consolidation it holds only files
\* extracted in this run; and it is gone once a run has completed with the
\* success message.
C16_ScratchIsOfOneRun ==
    /\ [](pc \in {"discover", "fetch"} => scratch.exists /\ scratch.files = <<>>)
    /\ [][(pc # "extract" /\ pc' = "extract") => scratch'.exists /\ scratch'.files = <<>>]_vars
    /\ [](pc \in {"extract", "consolidate"} =>
              \A n \in DOMAIN scratch.files : scratch.files[n].run = run)
    /\ [](pc = "done" => ~scratch.exists /\ scratch.files = <<>>)

\* C16, witness: the Extract stage of a run has begun on an empty scratch
\* directory, and the run before it was interrupted with files in it.
C16_Witness ==
    /\ pc = "extract"
    /\ run > 1
    /\ zips # <<>>
    /\ scratch.files = <<>>
    /\ before.scratch

\* The lines of this run's log of one kind.
Lines(kind) == {k \in 1..Len(log) : log[k].kind = kind}

\* C17: a run that SIGINT does not end and whose Discovery returned a link
\* reaches Done, its last line the success message, whatever links, archives
\* or data files failed; no failure stopped the work on the other units: by
\* then every link was reported, every archive of the cache directory was
\* taken up and every extracted file was consolidated or logged as failed.
C17_RunReachesDone ==
    /\ (pc = "fetch") ~> (pc \in {"done", "killed"})
    /\ [](pc = "done" => log[Len(log)].kind = "Success: Process complete.")
    /\ [](pc \in {"cleanup", "done"} =>
              /\ \A i \in Tasks : task[i].reported
              /\ {log[k].index : k \in Lines("Renaming & Extracting")} = ZipNames
              /\ pc = "cleanup" =>
                     {log[k].index : k \in Lines("Consolidating")} = DOMAIN scratch.files)

\* C17, witness: a run is done in which a download failed, an archive failed
\* and a data file failed.
C17_Witness ==
    /\ pc = "done"
    /\ Lines("FAILED") # {}
    /\ Lines("Failed to process") # {}
    /\ Lines("Error merging") # {}

\* C18: at no point of the Fetch stage are more than 5 download tasks in
\* flight, for any number of links and any scheduling, and every submitted
\* link is taken up by a worker and carried through in the end.
C18_AtMostFiveInFlight ==
    /\ [](Cardinality(InFlight) <= 5)
    /\ <>(\A i \in Tasks : task[i].st \in {"returned", "raised"})

\* C18, witness: five downloads are in flight and a sixth link waits.
C18_Witness ==
    /\ pc = "fetch"
    /\ Cardinality(InFlight) = 5
    /\ \E i \in Tasks : task[i].st = "queued"

\* urlparse(href).path: the path of an href as written in the anchor.
HrefPath(href) ==
    IF href # <<>> /\ href[1] \in Authorities
    THEN UrlPath(href)
    ELSE UrlPath(<<"http://h">> \o href)

\* The anchors of a page the claim has Discovery keep: the path of the href
\* ends with ".zip" and the trimmed, lower-cased text contains a keyword.
PathKept(page) ==
    {k \in 1..Len(page) :
        /\ EndsWith(HrefPath(page[k].href), ZIP)
        /\ \/ Contains(StripLower(page[k].text), GML)
           \/ Contains(StripLower(page[k].text), <<"l", "a", "n", "d">>)}

\* C19: for every index page Discovery returns a strictly ascending list
\* (sorted, no duplicates) of absolute URLs, which are exactly the href,
\* resolved against the source URL, of the anchors whose href path ends with
\* ".zip" and whose text contains one of the keywords.
C19_DiscoveryKeepsByPathAndText ==
    [][\A page \in DiscoverPages :
          Discover(page) =>
              /\ \A k \in 1..(Len(links') - 1) : StrLess(links'[k], links'[k + 1])
              /\ \A k \in 1..Len(links') : links'[k][1] \in Authorities
              /\ {links'[k] : k \in 1..Len(links')} =
                     {UrlJoin(BaseUrl, page[k].href) : k \in PathKept(page)}]_vars

\* C20: the cache file name of every link Discovery accepted, the basename of
\* the path of its URL, is not empty and ends with ".zip", the extension by
\* which the Extract stage selects the archives of the cache directory.
C20_AcceptedLinksAreNamedAsArchives ==
    \A i \in 1..Len(links) :
        /\ FileName(links[i]) # <<>>
        /\ EndsWith(FileName(links[i]), ZIP)

====
